---- MODULE Spec2Model ----
(***************************************************************************)
(* Model of scripts/convert_models_to_onnx.py: the batch converter main()  *)
(* and the per-model operation convert_yolov8_to_onnx(), run against a     *)
(* small file system.                                                      *)
(*                                                                         *)
(* A path is a sequence of components; a component is a record             *)
(* [stem, ext], so that os.path.basename, os.path.splitext and             *)
(* os.path.join are computed on the path and not assumed.                  *)
(*                                                                         *)
(* The loader and the exporter (ultralytics) are outside the repository:   *)
(* each either raises or succeeds, chosen nondeterministically at the step *)
(* that calls it.  A successful export leaves its artifact beside the      *)
(* checkpoint, with the extension replaced.                                *)
(***************************************************************************)
EXTENDS Integers, Sequences, FiniteSets, TLC

VARIABLES
    fs,          \* the file system: path -> "none" | "file" | "dir"
    pc,          \* position of the process in main()/convert_yolov8_to_onnx()
    i,           \* position of the for loop in the registry (1-based)
    converted,   \* converted_models
    onnx_path,   \* local onnx_path of the running convert call, or NoPath
    output_path, \* local output_path of the running convert call, or NoPath
    exc,         \* the exception in flight / being handled, or "none"
    calls,       \* registry positions convert was called for, this run
    outcomes,    \* per registry position, what the console reported, this run
    run,         \* number of the current invocation of the script
    lastRun      \* what the previous invocation left behind

vars == <<fs, pc, i, converted, onnx_path, output_path, exc, calls, outcomes,
          run, lastRun>>

\* Number of invocations of the script that are explored.
MaxRuns == 2

----------------------------------------------------------------------------
\* Paths

Comp(stem, ext) == [stem |-> stem, ext |-> ext]

\* os.path.basename
Basename(p) == p[Len(p)]

\* os.path.splitext(c)[0]
SplitextRoot(c) == c.stem

\* os.path.join(dir, component)
Join(d, c) == Append(d, c)

\* os.path.dirname
Dirname(p) == SubSeq(p, 1, Len(p) - 1)

\* models = [...] in main()
Models ==
    << <<Comp("api", ""), Comp("yolov8n-pose", "pt")>>,
       <<Comp("api", ""), Comp("yolov8s-pose", "pt")>> >>

NumModels == Len(Models)

\* output_dir='public/models', the default main() relies on
OutputDir == <<Comp("public", ""), Comp("models", "")>>

\* model_name = os.path.splitext(os.path.basename(model_path))[0]
ModelName(model_path) == SplitextRoot(Basename(model_path))

\* output_path = os.path.join(output_dir, f'{model_name}.onnx')
OutputPath(model_path) == Join(OutputDir, Comp(ModelName(model_path), "onnx"))

\* The path model.export() returns: the artifact lies beside the checkpoint.
ExportPath(model_path) ==
    Join(Dirname(model_path), Comp(ModelName(model_path), "onnx"))

\* shutil.move: the real destination when dst is an existing directory
NestedPath(src, dst) == Join(dst, Basename(src))

NoPath == << >>

SourcePaths == {Models[j] : j \in 1..NumModels}
ExportPaths == {ExportPath(Models[j]) : j \in 1..NumModels}
OutputPaths == {OutputPath(Models[j]) : j \in 1..NumModels}
NestedPaths ==
    {NestedPath(ExportPath(Models[j]), OutputPath(Models[j])) : j \in 1..NumModels}

\* What lies in or under the output directory
OutDirPaths == {OutputDir} \cup OutputPaths \cup NestedPaths

Paths == SourcePaths \cup ExportPaths \cup OutDirPaths

Kinds == {"none", "file", "dir"}

\* os.path.exists
Exists(f, p) == f[p] # "none"

\* A file system is well formed when an entry exists only inside a directory.
WellFormed(f) ==
    /\ \A p \in OutputPaths : Exists(f, p) => f[OutputDir] = "dir"
    /\ \A j \in 1..NumModels :
         LET o == OutputPath(Models[j])
             n == NestedPath(ExportPath(Models[j]), o)
         IN  /\ Exists(f, n) => f[o] = "dir"
             /\ f[n] # "dir"
    /\ \A p \in SourcePaths \cup ExportPaths : f[p] # "dir"

DirSnapshot(f) == [p \in OutDirPaths |-> f[p]]

----------------------------------------------------------------------------
\* Exceptions

\* What os.makedirs raises
MakedirsErrors == {"FileExistsError", "PermissionError"}

\* What the loader and the exporter raise
LibraryErrors == {"LoaderError", "ExporterError"}

\* What "except Exception" in main() catches: the OSError family
\* (os.makedirs, shutil.move, os.path.getsize), shutil.Error and whatever
\* Exception the loader or the exporter raises.
ExceptionClasses ==
    MakedirsErrors \cup LibraryErrors \cup {"OSError", "shutil.Error"}

CaughtOnlyLibrary(e) == e \in LibraryErrors

Caught(e) == e \in ExceptionClasses

\* The steps of convert_yolov8_to_onnx(); main() calls it inside its try.
ConvertSteps == {"makedirs", "load", "export", "move", "getsize", "return"}

InTryAfterMakedirs(step) == step \in ConvertSteps \ {"makedirs"}

InTry(step) == step \in ConvertSteps

\* Where control goes when step raises e
RaiseTarget(step, e) ==
    IF InTry(step) /\ Caught(e) THEN "handler" ELSE "crashed"

----------------------------------------------------------------------------
NoRun == [converted |-> << >>, outcomes |-> << >>, dir |-> << >>]

Init ==
    /\ fs \in {f \in [Paths -> Kinds] :
                 /\ WellFormed(f)
                 /\ \A p \in ExportPaths : f[p] = "none"}
    /\ pc = "start"
    /\ i = 1
    /\ converted = << >>
    /\ onnx_path = NoPath
    /\ output_path = NoPath
    /\ exc = "none"
    /\ calls = << >>
    /\ outcomes = << >>
    /\ run = 1
    /\ lastRun = NoRun

----------------------------------------------------------------------------
\* main()

\* print("... YOLOv8 Pose Model Converter ..."); converted_models = []
Start ==
    /\ pc = "start"
    /\ pc' = "loop"
    /\ i' = 1
    /\ converted' = << >>
    /\ calls' = << >>
    /\ outcomes' = << >>
    /\ exc' = "none"
    /\ UNCHANGED <<fs, onnx_path, output_path, run, lastRun>>

\* The position the for loop takes after the entry at position k
NextIndex(k) == k + 1

EnterConvertWithoutCheck ==
    /\ pc = "loop"
    /\ i <= NumModels
    /\ pc' = "makedirs"
    /\ calls' = Append(calls, i)
    /\ UNCHANGED <<fs, i, converted, onnx_path, output_path, exc, outcomes,
                   run, lastRun>>

\* for model_path in models: if os.path.exists(model_path): try: convert(...)
EnterConvert ==
    /\ pc = "loop"
    /\ i <= NumModels
    /\ Exists(fs, Models[i])
    /\ pc' = "makedirs"
    /\ calls' = Append(calls, i)
    /\ UNCHANGED <<fs, i, converted, onnx_path, output_path, exc, outcomes,
                   run, lastRun>>

SkipMissingAfterMakedirs ==
    /\ pc = "loop"
    /\ i <= NumModels
    /\ ~Exists(fs, Models[i])
    /\ pc' = "loop"
    /\ i' = NextIndex(i)
    /\ outcomes' = Append(outcomes, "missing")
    /\ fs' = [fs EXCEPT ![OutputDir] = IF @ = "none" THEN "dir" ELSE @]
    /\ UNCHANGED <<converted, onnx_path, output_path, exc, calls, run, lastRun>>

\* else: print("Model not found: ...")
SkipMissing ==
    /\ pc = "loop"
    /\ i <= NumModels
    /\ ~Exists(fs, Models[i])
    /\ pc' = "loop"
    /\ i' = NextIndex(i)
    /\ outcomes' = Append(outcomes, "missing")
    /\ UNCHANGED <<fs, converted, onnx_path, output_path, exc, calls, run,
                   lastRun>>

\* The for loop is exhausted
ExitLoop ==
    /\ pc = "loop"
    /\ i > NumModels
    /\ pc' = "summary"
    /\ UNCHANGED <<fs, i, converted, onnx_path, output_path, exc, calls,
                   outcomes, run, lastRun>>

\* A step of convert raises e: control leaves convert; its locals are gone.
Raise(step, e, f) ==
    /\ pc' = RaiseTarget(step, e)
    /\ exc' = e
    /\ fs' = f
    /\ onnx_path' = NoPath
    /\ output_path' = NoPath
    /\ UNCHANGED <<i, converted, calls, outcomes, run, lastRun>>

----------------------------------------------------------------------------
\* convert_yolov8_to_onnx(model_path), model_path = Models[i]

ExistOkFalse == FALSE

\* os.makedirs(output_dir, exist_ok=True)
ExistOk == TRUE

MakedirsWithoutCreating ==
    /\ pc = "makedirs"
    /\ pc' = "load"
    /\ UNCHANGED <<fs, i, converted, onnx_path, output_path, exc, calls,
                   outcomes, run, lastRun>>

\* os.makedirs(output_dir, exist_ok=True): an existing directory is accepted,
\* an existing file is FileExistsError, and creating the directory may be
\* refused by the system (PermissionError, read-only file system).
Makedirs ==
    /\ pc = "makedirs"
    /\ IF fs[OutputDir] = "dir" /\ ExistOk
       THEN /\ pc' = "load"
            /\ UNCHANGED <<fs, i, converted, onnx_path, output_path, exc,
                           calls, outcomes, run, lastRun>>
       ELSE IF fs[OutputDir] # "none"
       THEN Raise("makedirs", "FileExistsError", fs)
       ELSE \E ok \in BOOLEAN :
              IF ok
              THEN /\ pc' = "load"
                   /\ fs' = [fs EXCEPT ![OutputDir] = "dir"]
                   /\ UNCHANGED <<i, converted, onnx_path, output_path, exc,
                                  calls, outcomes, run, lastRun>>
              ELSE Raise("makedirs", "PermissionError", fs)

\* model = YOLO(model_path)
Load ==
    /\ pc = "load"
    /\ \E ok \in BOOLEAN :
         IF ok
         THEN /\ pc' = "export"
              /\ UNCHANGED <<fs, i, converted, onnx_path, output_path, exc,
                             calls, outcomes, run, lastRun>>
         ELSE Raise("load", "LoaderError", fs)

\* onnx_path = model.export(format='onnx', ...)
Export ==
    /\ pc = "export"
    /\ \E ok \in BOOLEAN :
         IF ok
         THEN /\ pc' = "move"
              /\ onnx_path' = ExportPath(Models[i])
              /\ fs' = [fs EXCEPT ![ExportPath(Models[i])] = "file"]
              /\ UNCHANGED <<i, converted, output_path, exc, calls, outcomes,
                             run, lastRun>>
         ELSE Raise("export", "ExporterError", fs)

RealDstNeverOverwrites(f, src, dst) ==
    IF Exists(f, dst) THEN NestedPath(src, dst) ELSE dst

\* shutil.move(src, dst): the path the file ends at.  An existing directory
\* at dst receives the file under the source's basename.
RealDst(f, src, dst) == IF f[dst] = "dir" THEN NestedPath(src, dst) ELSE dst

\* output_path = os.path.join(output_dir, f'{model_name}.onnx')
\* shutil.move(onnx_path, output_path)
Move ==
    /\ pc = "move"
    /\ LET dst == OutputPath(Models[i])
           real == RealDst(fs, onnx_path, dst)
       IN  IF fs[dst] = "dir" /\ Exists(fs, real)
           THEN Raise("move", "shutil.Error", fs)
           ELSE IF fs[onnx_path] # "file" \/ fs[Dirname(dst)] # "dir"
           THEN Raise("move", "OSError", fs)
           ELSE \E ok \in BOOLEAN :
                  IF ok
                  THEN /\ pc' = "getsize"
                       /\ output_path' = dst
                       /\ fs' = [fs EXCEPT ![onnx_path] = "none",
                                           ![real] = "file"]
                       /\ UNCHANGED <<i, converted, onnx_path, exc, calls,
                                      outcomes, run, lastRun>>
                  ELSE Raise("move", "OSError", fs)

\* print("Successfully converted ..."); os.path.getsize(output_path)
Getsize ==
    /\ pc = "getsize"
    /\ IF Exists(fs, output_path)
       THEN /\ pc' = "return"
            /\ UNCHANGED <<fs, i, converted, onnx_path, output_path, exc,
                           calls, outcomes, run, lastRun>>
       ELSE Raise("getsize", "OSError", fs)

PrependConverted(list, p) == <<p>> \o list

\* converted_models.append(output_path)
AppendConverted(list, p) == Append(list, p)

\* return output_path; converted_models.append(output_path)
ReturnAppend ==
    /\ pc = "return"
    /\ pc' = "loop"
    /\ converted' = AppendConverted(converted, output_path)
    /\ outcomes' = Append(outcomes, "converted")
    /\ i' = NextIndex(i)
    /\ onnx_path' = NoPath
    /\ output_path' = NoPath
    /\ UNCHANGED <<fs, exc, calls, run, lastRun>>

HandlerBreaks ==
    /\ pc = "handler"
    /\ pc' = "summary"
    /\ outcomes' = Append(outcomes, exc)
    /\ exc' = "none"
    /\ UNCHANGED <<fs, i, converted, onnx_path, output_path, calls, run,
                   lastRun>>

\* except Exception as e: print("Error converting ...")
Handler ==
    /\ pc = "handler"
    /\ pc' = "loop"
    /\ i' = NextIndex(i)
    /\ outcomes' = Append(outcomes, exc)
    /\ exc' = "none"
    /\ UNCHANGED <<fs, converted, onnx_path, output_path, calls, run, lastRun>>

\* print("Conversion Complete!") ... print(); main() returns
Summary ==
    /\ pc = "summary"
    /\ pc' = "done"
    /\ UNCHANGED <<fs, i, converted, onnx_path, output_path, exc, calls,
                   outcomes, run, lastRun>>

\* The script is invoked again, on the file system the last run left.
StartAgain ==
    /\ pc = "done"
    /\ run < MaxRuns
    /\ run' = run + 1
    /\ lastRun' = [converted |-> converted, outcomes |-> outcomes,
                   dir |-> DirSnapshot(fs)]
    /\ pc' = "start"
    /\ UNCHANGED <<fs, i, converted, onnx_path, output_path, exc, calls,
                   outcomes>>

Next ==
    \/ Start
    \/ EnterConvert
    \/ SkipMissing
    \/ ExitLoop
    \/ Makedirs
    \/ Load
    \/ Export
    \/ Move
    \/ Getsize
    \/ ReturnAppend
    \/ Handler
    \/ Summary
    \/ StartAgain

Spec == Init /\ [][Next]_vars

\* The process is single-threaded and blocking: a step that can be taken is
\* taken.
FairSpec == Spec /\ WF_vars(Next)

----------------------------------------------------------------------------
\* Properties

Range(q) == {q[k] : k \in DOMAIN q}

Finished == pc \in {"summary", "done"}

\* The output paths of the entries reported as converted, in registry order
RECURSIVE ConvertedOf(_, _)
ConvertedOf(out, k) ==
    IF k > Len(out) THEN << >>
    ELSE IF out[k] = "converted"
         THEN <<OutputPath(Models[k])>> \o ConvertedOf(out, k + 1)
         ELSE ConvertedOf(out, k + 1)

\* C1: when convert raises for the model at a position, every later model
\* is still checked for existence and, if present, converted; with the first
\* model's export raising and the second converting, the converted list is
\* exactly the second model's output path.
C1_LaterModelsStillAttempted ==
    Finished =>
      /\ \A k \in 1..NumModels :
           (k <= Len(outcomes) /\ outcomes[k] \in ExceptionClasses) =>
             \A j \in (k + 1)..NumModels :
               /\ Len(outcomes) >= j
               /\ fs[Models[j]] # "none" => j \in Range(calls)
               /\ fs[Models[j]] = "none" => outcomes[j] = "missing"
               /\ outcomes[j] = "converted" =>
                    OutputPath(Models[j]) \in Range(converted)
      /\ outcomes = <<"ExporterError", "converted">> =>
           converted = <<OutputPath(Models[2])>>

C1_Witness ==
    /\ pc = "summary"
    /\ outcomes = <<"ExporterError", "converted">>
    /\ converted = <<OutputPath(Models[2])>>

\* C2: for a registry entry whose source does not exist, main does not
\* raise, convert is not called for it, its output path is not in the
\* converted list, and the remaining entries are still processed.
C2_MissingIsSkipped ==
    \A j \in 1..NumModels :
      fs[Models[j]] = "none" =>
        /\ pc # "crashed"
        /\ j \notin Range(calls)
        /\ OutputPath(Models[j]) \notin Range(converted)
        /\ Finished =>
             /\ Len(outcomes) = NumModels
             /\ outcomes[j] = "missing"
             /\ \A k \in 1..NumModels :
                  fs[Models[k]] # "none" => k \in Range(calls)

C2_Witness ==
    /\ pc = "summary"
    /\ fs[Models[1]] = "none"
    /\ outcomes = <<"missing", "converted">>

\* C3: whatever the per-model outcomes, main never ends in an error state
\* and every started run reaches the end of the summary.
C3_AlwaysCompletes ==
    /\ [](pc # "crashed")
    /\ [](pc = "start" => <>(pc = "done"))

C3_Witness ==
    /\ pc = "done"
    /\ \E k \in DOMAIN outcomes : outcomes[k] \in ExceptionClasses
    /\ \E k \in DOMAIN outcomes : outcomes[k] = "missing"

\* C4 as stated: a failure to create the output directory is not caught per
\* model and terminates the process in a failed state.
C4_MakedirsFailureIsFatal ==
    exc \in MakedirsErrors => pc = "crashed"

\* C4 amended: a failure to create the output directory is raised inside
\* convert, is caught by the per-model handler, adds nothing to the
\* converted list, and the loop goes on to the next entry.
C4_MakedirsFailureIsCaught ==
    /\ [](exc \in MakedirsErrors => pc = "handler")
    /\ [][(pc = "handler" /\ exc \in MakedirsErrors) =>
            (pc' = "loop" /\ i' = i + 1 /\ converted' = converted)]_vars

C4_Witness ==
    /\ pc = "summary"
    /\ \E k \in DOMAIN outcomes : outcomes[k] \in MakedirsErrors

\* C5: whenever convert returns, a file exists at
\* output_dir/<model_name>.onnx, that path is the returned value, and the
\* artifact is gone from the location the exporter returned.
C5_ReturnedPathIsTheFile ==
    pc = "return" =>
      /\ output_path = OutputPath(Models[i])
      /\ fs[output_path] = "file"
      /\ fs[onnx_path] = "none"

\* C6: a run with the same per-model outcomes as the run before it leaves
\* the output directory with the same entries and reports the same
\* converted list.
C6_SecondRunChangesNothing ==
    (pc = "done" /\ run > 1 /\ outcomes = lastRun.outcomes) =>
      /\ DirSnapshot(fs) = lastRun.dir
      /\ converted = lastRun.converted

C6_Witness ==
    /\ pc = "done"
    /\ run > 1
    /\ outcomes = lastRun.outcomes
    /\ outcomes = <<"converted", "converted">>

\* C7: whenever the export or the move is about to run, the output
\* directory exists.
C7_DirExistsBeforeMove ==
    pc \in {"load", "export", "move"} => fs[OutputDir] = "dir"

C7_Witness ==
    /\ pc = "move"
    /\ onnx_path = ExportPath(Models[i])
    /\ fs[onnx_path] = "file"

\* C8: with the output directory already there, os.makedirs does not fail
\* and changes nothing, and no step of convert changes an existing entry of
\* the directory other than the target file.
C8_MakedirsIdempotent ==
    [][/\ (pc = "makedirs" /\ fs[OutputDir] = "dir") =>
            (pc' = "load" /\ fs' = fs)
       /\ (pc \in ConvertSteps /\ fs[OutputDir] = "dir") =>
            \A p \in OutDirPaths \ {OutputPath(Models[i])} :
              fs[p] # "none" => fs'[p] = fs[p]]_vars

C8_Witness ==
    /\ pc = "load"
    /\ i = 2
    /\ outcomes = <<"converted">>
    /\ fs[OutputPath(Models[1])] = "file"

\* C9: the registry is processed in order, each entry at most once, and at
\* the summary the converted list is exactly the output paths of the
\* entries whose convert returned, in registry order.
C9_InOrderAtMostOnce ==
    /\ \A a, b \in DOMAIN calls : a < b => calls[a] < calls[b]
    /\ Len(converted) <= NumModels
    /\ pc = "loop" => Len(outcomes) = i - 1
    /\ pc \in ConvertSteps \cup {"handler"} =>
         /\ Len(outcomes) = i - 1
         /\ calls[Len(calls)] = i
    /\ Finished =>
         /\ Len(outcomes) = NumModels
         /\ converted = ConvertedOf(outcomes, 1)
         /\ \A k \in 1..NumModels :
              outcomes[k] = "converted" => k \in Range(calls)

C9_Witness ==
    /\ pc = "summary"
    /\ converted = <<OutputPath(Models[1]), OutputPath(Models[2])>>

AllMissing == \A j \in 1..NumModels : fs[Models[j]] = "none"

\* C10: skipping a missing model calls nothing and changes neither the file
\* system nor the converted list; when every entry is missing the run
\* changes no file and ends with an empty converted list.
C10_SkipHasNoEffect ==
    /\ [][(pc = "loop" /\ i <= NumModels /\ fs[Models[i]] = "none") =>
            (fs' = fs /\ converted' = converted /\ calls' = calls)]_vars
    /\ [][AllMissing => fs' = fs]_vars
    /\ []((AllMissing /\ Finished) => (converted = << >> /\ calls = << >>))

C10_Witness ==
    /\ pc = "done"
    /\ AllMissing
    /\ fs[OutputDir] = "none"
    /\ converted = << >>

====
